---------------------------- MODULE Spec2Model ----------------------------
(* A model of the newspaper generator: make_newspaper.main (the batch     *)
(* loop), article_fetcher (the two extraction strategies and the reader-  *)
(* view redirect) and pdf_generator (html_to_flowables and the story      *)
(* built by generate_newspaper_pdf).                                      *)
(*                                                                        *)
(* Text is a sequence of tokens (a token stands for a run of characters;  *)
(* " " is a run of whitespace).  An optional value (Python None or a      *)
(* string) is a sequence of length at most one holding the text.  A       *)
(* document is a forest of nodes: text nodes (name "#text") and elements. *)
EXTENDS Integers, Sequences, FiniteSets, TLC

VARIABLES
    \* make_newspaper.main
    urls, web, idx, articles, pc, pdfCalls, attempts,
    \* article_fetcher.fetch_article on one URL
    url, outcome,
    \* pdf_generator.html_to_flowables on one markup string
    html_content, stringsDecompose, cleaned, soup, flowables,
    \* pdf_generator.generate_newspaper_pdf
    story, classified

vars == <<urls, web, idx, articles, pc, pdfCalls, attempts, url, outcome,
          html_content, stringsDecompose, cleaned, soup, flowables, story, classified>>

-----------------------------------------------------------------------------
(* Strings *)

None == << >>
Some(s) == << s >>
\* Python truthiness of an optional string: neither None nor "".
Truthy(o) == o # None /\ o[1] # << >>
\* `o or d` for an optional string o and a string d.
OrElse(o, d) == IF Truthy(o) THEN o[1] ELSE d

IsSpace(tok) == tok = " "

RECURSIVE LStrip(_)
LStrip(s) == IF s # << >> /\ IsSpace(Head(s)) THEN LStrip(Tail(s)) ELSE s

RECURSIVE RStrip(_)
RStrip(s) ==
    IF s # << >> /\ IsSpace(s[Len(s)]) THEN RStrip(SubSeq(s, 1, Len(s) - 1)) ELSE s

\* str.strip()
Strip(s) == RStrip(LStrip(s))

LowerTok(tok) ==
    CASE tok \in {"References", "REFERENCES"} -> "references"
      [] tok = "Next" -> "next"
      [] tok = "A" -> "a"
      [] tok = "B" -> "b"
      [] tok = "C" -> "c"
      [] OTHER -> tok

\* str.lower()
Lower(s) == [k \in DOMAIN s |-> LowerTok(s[k])]

\* len(str): the number of characters of the tokens.
RECURSIVE StrLen(_)
StrLen(s) == IF s = << >> THEN 0 ELSE Len(Head(s)) + StrLen(Tail(s))

-----------------------------------------------------------------------------
(* The parse tree (bs4 Tag and NavigableString) *)

NoAttrs ==
    [class |-> << >>, href |-> None, rel |-> None, alt |-> None,
     datetime |-> None, mname |-> None, content |-> None]

Text(s) == [name |-> "#text", attrs |-> NoAttrs, kids |-> << >>, text |-> s]
Elem(n, a, k) == [name |-> n, attrs |-> a, kids |-> k, text |-> << >>]
El(n, k) == Elem(n, NoAttrs, k)
Cls(n, c, k) == Elem(n, [NoAttrs EXCEPT !.class = << c >>], k)

IsTag(node) == node.name # "#text"

\* Elements html.parser closes as soon as they open.
VoidTags == {"img", "link", "meta"}

RECURSIVE Serialize(_)
RECURSIVE SerializeAll(_)
\* str(tag): the markup of a node as a sequence of lexical items.
Serialize(node) ==
    IF ~IsTag(node) THEN << [k |-> "data", name |-> "", attrs |-> NoAttrs, text |-> node.text] >>
    ELSE IF node.name \in VoidTags
    THEN << [k |-> "start", name |-> node.name, attrs |-> node.attrs, text |-> << >>] >>
    ELSE << [k |-> "start", name |-> node.name, attrs |-> node.attrs, text |-> << >>] >>
         \o SerializeAll(node.kids)
         \o << [k |-> "end", name |-> node.name, attrs |-> NoAttrs, text |-> << >>] >>
SerializeAll(nodes) ==
    IF nodes = << >> THEN << >> ELSE Serialize(Head(nodes)) \o SerializeAll(Tail(nodes))

\* Appending a node to the open element on top of the stack; character data
\* that follows character data extends the same string.
AppendKid(stack, node) ==
    LET top == stack[Len(stack)]
        n == Len(top.kids)
        merged ==
            IF ~IsTag(node) /\ n > 0 /\ ~IsTag(top.kids[n])
            THEN [top.kids EXCEPT ![n] = Text(top.kids[n].text \o node.text)]
            ELSE Append(top.kids, node)
    IN  [stack EXCEPT ![Len(stack)] = [top EXCEPT !.kids = merged]]

RECURSIVE PopTo(_, _)
\* Closes the open elements above and including position j.
PopTo(stack, j) ==
    IF Len(stack) < j THEN stack
    ELSE PopTo(AppendKid(SubSeq(stack, 1, Len(stack) - 1), stack[Len(stack)]), j)

RECURSIVE ParseFrom(_, _, _)
ParseFrom(items, i, stack) ==
    IF i > Len(items) THEN PopTo(stack, 2)[1].kids
    ELSE LET it == items[i] IN
         CASE it.k = "data" -> ParseFrom(items, i + 1, AppendKid(stack, Text(it.text)))
           [] it.k = "start" ->
                IF it.name \in VoidTags
                THEN ParseFrom(items, i + 1, AppendKid(stack, Elem(it.name, it.attrs, << >>)))
                ELSE ParseFrom(items, i + 1, Append(stack, Elem(it.name, it.attrs, << >>)))
           [] OTHER ->
                LET open == {j \in 2..Len(stack) : stack[j].name = it.name} IN
                IF open = {} THEN ParseFrom(items, i + 1, stack)
                ELSE ParseFrom(items, i + 1,
                               PopTo(stack, CHOOSE j \in open : \A m \in open : m <= j))

\* BeautifulSoup(markup, 'html.parser'): the children of the document.
Soup(markup) == ParseFrom(markup, 1, << El("[document]", << >>) >>)

RECURSIVE Strings(_)
RECURSIVE StringsAll(_)
\* The stripped, non-empty strings below a node, in document order.
Strings(node) ==
    IF ~IsTag(node)
    THEN (IF Strip(node.text) = << >> THEN << >> ELSE << Strip(node.text) >>)
    ELSE StringsAll(node.kids)
StringsAll(nodes) ==
    IF nodes = << >> THEN << >> ELSE Strings(Head(nodes)) \o StringsAll(Tail(nodes))

RECURSIVE Concat(_)
Concat(ss) == IF ss = << >> THEN << >> ELSE Head(ss) \o Concat(Tail(ss))

\* tag.get_text(strip=True)
GetTextStrip(node) == Concat(Strings(node))

RECURSIVE RawText(_)
RECURSIVE RawTextAll(_)
\* tag.get_text()
RawText(node) == IF ~IsTag(node) THEN node.text ELSE RawTextAll(node.kids)
RawTextAll(nodes) ==
    IF nodes = << >> THEN << >> ELSE RawText(Head(nodes)) \o RawTextAll(Tail(nodes))

RECURSIVE Descendants(_)
RECURSIVE DescendantsAll(_)
\* The elements below a node, in document order (tag.find_all(True)).
Descendants(node) == DescendantsAll(node.kids)
DescendantsAll(nodes) ==
    IF nodes = << >> THEN << >>
    ELSE (IF IsTag(Head(nodes)) THEN << Head(nodes) >> \o Descendants(Head(nodes)) ELSE << >>)
         \o DescendantsAll(Tail(nodes))

-----------------------------------------------------------------------------
(* pdf_generator.html_to_flowables *)

HasClass(node, c) == \E k \in DOMAIN node.attrs.class : node.attrs.class[k] = c

\* soup.find / find_all selectors: a tag name and, unless "", a class.
Sel(n, c) == [name |-> n, class |-> c]
Matches(node, sel) ==
    IsTag(node) /\ node.name = sel.name /\ (sel.class = "" \/ HasClass(node, sel.class))
MatchesAny(node, sels) == \E sel \in sels : Matches(node, sel)

RECURSIVE Remove(_, _)
\* for tag in x.find_all(sels): tag.decompose()
Remove(nodes, sels) ==
    IF nodes = << >> THEN << >>
    ELSE LET h == Head(nodes) IN
         (IF ~IsTag(h) THEN << h >>
          ELSE IF MatchesAny(h, sels) THEN << >>
          ELSE << [h EXCEPT !.kids = Remove(h.kids, sels)] >>)
         \o Remove(Tail(nodes), sels)

UnwantedTags == {Sel(n, "") : n \in {"script", "style", "button", "form", "nav"}}
SubscriptionWidgets == {Sel("div", "subscription-widget-wrap")}

HeadingTags == {"h1", "h2", "h3"}
IsReferencesHeading(node) ==
    node.name \in HeadingTags /\ Lower(GetTextStrip(node)) = << "references" >>

RECURSIVE DeleteSectionToEnd(_, _)
\* The section loop without its break at the next heading.
DeleteSectionToEnd(siblings, strDec) ==
    IF siblings = << >> THEN << >>
    ELSE IF IsTag(Head(siblings)) \/ strDec THEN DeleteSectionToEnd(Tail(siblings), strDec)
    ELSE << Head(siblings) >> \o DeleteSectionToEnd(Tail(siblings), strDec)

RECURSIVE DeleteSection(_, _)
\* The loop over h_tag's next siblings: every sibling up to the next h1-h3
\* is decomposed; a string is decomposed only where the library gives
\* strings a decompose method (strDec).
DeleteSection(siblings, strDec) ==
    IF siblings = << >> THEN << >>
    ELSE LET current == Head(siblings) IN
         IF IsTag(current) /\ current.name \in HeadingTags THEN siblings
         ELSE IF IsTag(current) \/ strDec THEN DeleteSection(Tail(siblings), strDec)
         ELSE << current >> \o DeleteSection(Tail(siblings), strDec)

RECURSIVE RemoveReferences(_, _)
\* The first h1-h3 in document order whose text is "references": its
\* section and the heading itself are deleted, then the search stops.
\* Returns the new nodes and whether the heading was found below them.
RemoveReferences(nodes, strDec) ==
    IF nodes = << >> THEN [found |-> FALSE, nodes |-> << >>]
    ELSE LET h_tag == Head(nodes) IN
         IF IsTag(h_tag) /\ IsReferencesHeading(h_tag)
         THEN [found |-> TRUE, nodes |-> DeleteSection(Tail(nodes), strDec)]
         ELSE LET below == IF IsTag(h_tag) THEN RemoveReferences(h_tag.kids, strDec)
                           ELSE [found |-> FALSE, nodes |-> << >>]
              IN  IF below.found
                  THEN [found |-> TRUE,
                        nodes |-> << [h_tag EXCEPT !.kids = below.nodes] >> \o Tail(nodes)]
                  ELSE LET rest == RemoveReferences(Tail(nodes), strDec)
                       IN  [found |-> rest.found, nodes |-> << h_tag >> \o rest.nodes]

Flowable(style, text) == [style |-> style, text |-> text]

\* The bullet character U+2022.
BulletChar == "&#8226;"

\* The marker numbered from the count of items before it.
BulletFromZero(listName, emitted) ==
    IF listName = "ul" THEN BulletChar ELSE ToString(emitted) \o "."

Bullet(listName, emitted) ==
    IF listName = "ul" THEN BulletChar ELSE ToString(emitted + 1) \o "."

RECURSIVE ListItems(_, _, _)
\* The loop over the direct li children of a ul/ol; result is the list of
\* flowables this call of process_element has built so far.
ListItems(listName, kids, result) ==
    IF kids = << >> THEN result
    ELSE LET li == Head(kids)
             text == GetTextStrip(li)
         IN  IF li.name = "li" /\ text # << >>
             THEN ListItems(listName, Tail(kids),
                            Append(result,
                                   Flowable("ColumnBody",
                                            << Bullet(listName, Len(result)), " " >> \o text)))
             ELSE ListItems(listName, Tail(kids), result)

RECURSIVE process_element(_)
RECURSIVE process_children(_)
\* process_element descending into every element it does not recognise.
process_any_element(elem) ==
    LET text == GetTextStrip(elem) IN
    CASE elem.name = "p" ->
            IF text # << >> THEN << Flowable("ColumnBody", text) >> ELSE << >>
      [] elem.name \in {"h1", "h2"} ->
            IF text # << >> THEN << Flowable("ArticleHeading", text) >> ELSE << >>
      [] elem.name = "h3" ->
            IF text # << >> THEN << Flowable("ArticleSubheading", text) >> ELSE << >>
      [] elem.name = "blockquote" ->
            IF text # << >> THEN << Flowable("Quote", text) >> ELSE << >>
      [] elem.name \in {"ul", "ol"} -> ListItems(elem.name, elem.kids, << >>)
      [] OTHER -> process_children(elem.kids)

process_element(elem) ==
    LET text == GetTextStrip(elem) IN
    CASE elem.name = "p" ->
            IF text # << >> THEN << Flowable("ColumnBody", text) >> ELSE << >>
      [] elem.name \in {"h1", "h2"} ->
            IF text # << >> THEN << Flowable("ArticleHeading", text) >> ELSE << >>
      [] elem.name = "h3" ->
            IF text # << >> THEN << Flowable("ArticleSubheading", text) >> ELSE << >>
      [] elem.name = "blockquote" ->
            IF text # << >> THEN << Flowable("Quote", text) >> ELSE << >>
      [] elem.name \in {"ul", "ol"} -> ListItems(elem.name, elem.kids, << >>)
      [] elem.name = "div" -> process_children(elem.kids)
      [] OTHER -> << >>
process_children(nodes) ==
    IF nodes = << >> THEN << >>
    ELSE (IF IsTag(Head(nodes)) THEN process_element(Head(nodes)) ELSE << >>)
         \o process_children(Tail(nodes))

\* soup.find('body') or soup: the children the walk starts from.
BodyChildren(tree) ==
    LET tags == DescendantsAll(tree)
        bodies == {k \in DOMAIN tags : tags[k].name = "body"}
    IN  IF bodies = {} THEN tree
        ELSE tags[CHOOSE k \in bodies : \A m \in bodies : k <= m].kids

\* The tree after the three removals.
Cleaned(markup) == Remove(Remove(Soup(markup), UnwantedTags), SubscriptionWidgets)
Sanitized(markup, strDec) == RemoveReferences(Cleaned(markup), strDec).nodes

\* The walk from the body (or the root) down.
Walk(tree) == process_children(BodyChildren(tree))

html_to_flowables(markup, strDec) == Walk(Sanitized(markup, strDec))

-----------------------------------------------------------------------------
(* article_fetcher *)

\* `needle in tok` for the fragments the fetcher looks for.
Within(needle, tok) ==
    \/ tok = needle
    \/ needle = "substack.com" /\ tok \in {"news.substack.com", "https://substack.com/@"}
    \/ needle = "title" /\ tok \in {"post-title", "publication-title"}

\* `needle in s`
Contains(s, needle) == \E k \in DOMAIN s : Within(needle, s[k])

is_substack_url(u) == Contains(u, "substack.com")

\* soup.find(...): the first element below `nodes` that satisfies the
\* test, as an optional (a sequence of at most one node).
FirstOf(tags, hits) ==
    IF hits = {} THEN << >> ELSE << tags[CHOOSE k \in hits : \A m \in hits : k <= m] >>
Find(nodes, sel) ==
    LET tags == DescendantsAll(nodes)
    IN  FirstOf(tags, {k \in DOMAIN tags : Matches(tags[k], sel)})

RECURSIVE FirstMatch(_, _)
\* The first of the selectors, in their order, that finds an element.
FirstMatch(nodes, sels) ==
    IF sels = << >> THEN << >>
    ELSE IF Find(nodes, Head(sels)) # << >> THEN Find(nodes, Head(sels))
    ELSE FirstMatch(nodes, Tail(sels))

\* soup.find('link', rel='canonical')
FindCanonical(nodes) ==
    LET tags == DescendantsAll(nodes)
    IN  FirstOf(tags, {k \in DOMAIN tags : tags[k].name = "link"
                                           /\ tags[k].attrs.rel = Some(<< "canonical" >>)})

\* Lines 35-43: h1.post-title, else the title element.
SubstackTitle(nodes) ==
    LET title_tag == Find(nodes, Sel("h1", "post-title"))
        fallback == Find(nodes, Sel("title", ""))
    IN  IF title_tag # << >> THEN Some(GetTextStrip(title_tag[1]))
        ELSE IF fallback # << >> THEN Some(GetTextStrip(fallback[1]))
        ELSE None

\* Lines 49-59: the h1 whose class contains "title", its link to "/", the
\* link's text or else the alt of an image inside it.
Publication(nodes) ==
    LET tags == DescendantsAll(nodes)
        pub_heading == FirstOf(tags, {k \in DOMAIN tags :
                          /\ tags[k].name = "h1"
                          /\ \E c \in DOMAIN tags[k].attrs.class :
                                Within("title", tags[k].attrs.class[c])})
    IN  IF pub_heading = << >> THEN None
        ELSE LET inner == Descendants(pub_heading[1])
                 pub_link == FirstOf(inner, {k \in DOMAIN inner :
                                 inner[k].name = "a" /\ inner[k].attrs.href = Some(<< "/" >>)})
             IN  IF pub_link = << >> THEN None
                 ELSE LET text == GetTextStrip(pub_link[1])
                          imgs == Descendants(pub_link[1])
                          img == FirstOf(imgs, {k \in DOMAIN imgs :
                                    imgs[k].name = "img" /\ imgs[k].attrs.alt # None})
                      IN  IF text # << >> THEN Some(text)
                          ELSE IF img # << >> /\ Truthy(img[1].attrs.alt) THEN img[1].attrs.alt
                          ELSE Some(text)

\* Lines 62-67: the first profile link that has text.
Author(nodes) ==
    LET tags == DescendantsAll(nodes)
        author_links == {k \in DOMAIN tags :
                            /\ tags[k].name = "a"
                            /\ tags[k].attrs.href # None
                            /\ tags[k].attrs.href[1] # << >>
                            /\ tags[k].attrs.href[1][1] = "https://substack.com/@"
                            /\ GetTextStrip(tags[k]) # << >>}
    IN  IF author_links = {} THEN None
        ELSE Some(GetTextStrip(FirstOf(tags, author_links)[1]))

\* The display string that ignores whether the publication is the author.
FormatAuthorAlwaysFrom(author, publication) ==
    IF Truthy(author) /\ Truthy(publication)
    THEN Some(<< "Written by " >> \o author[1] \o << " from " >> \o publication[1])
    ELSE IF Truthy(author) THEN Some(<< "Written by " >> \o author[1])
    ELSE Some(<< "Unknown Author" >>)

\* Lines 70-75.
FormatAuthor(author, publication) ==
    IF Truthy(author) /\ Truthy(publication) /\ author # publication
    THEN Some(<< "Written by " >> \o author[1] \o << " from " >> \o publication[1])
    ELSE IF Truthy(author) THEN Some(<< "Written by " >> \o author[1])
    ELSE Some(<< "Unknown Author" >>)

\* Lines 78-81 and 141-144: the first time element's datetime, else its text.
Date(nodes) ==
    LET time_tag == Find(nodes, Sel("time", ""))
    IN  IF time_tag = << >> THEN None
        ELSE IF Truthy(time_tag[1].attrs.datetime) THEN time_tag[1].attrs.datetime
        ELSE Some(GetTextStrip(time_tag[1]))

\* Lines 87-92.
SubstackContainer(nodes) ==
    FirstMatch(nodes, << Sel("div", "available-content"), Sel("div", "body"), Sel("article", "") >>)

\* The container's inner markup instead of the container's own.
ContentInnerHtml(content_div, unwanted) ==
    IF content_div = << >> THEN << >>
    ELSE SerializeAll(Remove(content_div[1].kids, unwanted))

\* Lines 94-100 and 171-175: the container's markup once the unwanted
\* elements below it are decomposed; "" when there is no container.
ContentHtml(content_div, unwanted) ==
    IF content_div = << >> THEN << >>
    ELSE Serialize([content_div[1] EXCEPT !.kids = Remove(content_div[1].kids, unwanted)])

\* The returned dict without its fallbacks.
ArticleAsFound(title, author, date, content_html, u) ==
    [title |-> title, author |-> author, date |-> date,
     content_html |-> content_html, url |-> u]

\* Lines 102-108 and 177-183: the returned dict.
Article(title, author, date, content_html, u) ==
    [title |-> Some(OrElse(title, << "Untitled" >>)),
     author |-> Some(OrElse(author, << "Unknown Author" >>)),
     date |-> Some(OrElse(date, << >>)),
     content_html |-> content_html,
     url |-> u]

\* Lines 34-108 on a parsed page.
ExtractSubstack(nodes, u) ==
    Article(SubstackTitle(nodes),
            FormatAuthor(Author(nodes), Publication(nodes)),
            Date(nodes),
            ContentHtml(SubstackContainer(nodes),
                        {Sel(n, "") : n \in {"script", "style", "button", "form"}}),
            u)

\* Frames the interpreter allows before it raises RecursionError.
MaxRecursion == 4

Raised(error, requests) == [ok |-> FALSE, error |-> error, requests |-> requests]
Returned(article, requests) == [ok |-> TRUE, article |-> article, requests |-> requests]

RECURSIVE fetch_substack(_, _, _)
\* fetch_substack_article(url) in its depth-th frame; the result carries
\* the requests made, in order.
fetch_substack(u, pages, depth) ==
    IF depth > MaxRecursion THEN Raised("RecursionError", << >>)
    ELSE IF pages[u].status # "ok" THEN Raised(pages[u].status, << u >>)
    ELSE LET nodes == Soup(pages[u].text)
             canonical_link == FindCanonical(nodes)
         IN  IF /\ Contains(u, "/home/post/")
                /\ canonical_link # << >>
                /\ Truthy(canonical_link[1].attrs.href)
             THEN LET inner == fetch_substack(canonical_link[1].attrs.href[1], pages, depth + 1)
                  IN  [inner EXCEPT !.requests = << u >> \o inner.requests]
             ELSE Returned(ExtractSubstack(nodes, u), << u >>)

fetch_substack_article(u, pages) == fetch_substack(u, pages, 1)

\* Lines 124-132.
GeneralTitle(nodes) ==
    LET h1 == Find(nodes, Sel("h1", ""))
        title_tag == Find(nodes, Sel("title", ""))
    IN  IF h1 # << >> THEN Some(GetTextStrip(h1[1]))
        ELSE IF title_tag # << >> THEN Some(GetTextStrip(title_tag[1]))
        ELSE None

\* Lines 135-138.
GeneralAuthor(nodes) ==
    LET tags == DescendantsAll(nodes)
        author_meta == FirstOf(tags, {k \in DOMAIN tags :
                          tags[k].name = "meta" /\ tags[k].attrs.mname = Some(<< "author" >>)})
    IN  IF author_meta = << >> THEN None ELSE author_meta[1].attrs.content

RECURSIVE LongestDiv(_, _, _, _)
\* Lines 162-168: the first div whose text is longer than that of every
\* div before it.
LongestDiv(all_divs, k, max_text_len, content_div) ==
    IF k > Len(all_divs) THEN content_div
    ELSE LET text_len == StrLen(RawText(all_divs[k]))
         IN  IF text_len > max_text_len
             THEN LongestDiv(all_divs, k + 1, text_len, << all_divs[k] >>)
             ELSE LongestDiv(all_divs, k + 1, max_text_len, content_div)

\* Lines 148-168.
GeneralContainer(nodes) ==
    LET found == FirstMatch(nodes, << Sel("article", ""), Sel("div", "article"),
                                      Sel("div", "content"), Sel("div", "post"),
                                      Sel("main", "") >>)
        tags == DescendantsAll(nodes)
    IN  IF found # << >> THEN found
        ELSE LongestDiv(SelectSeq(tags, LAMBDA t : t.name = "div"), 1, 0, << >>)

fetch_general_article(u, pages) ==
    IF pages[u].status # "ok" THEN Raised(pages[u].status, << u >>)
    ELSE LET nodes == Soup(pages[u].text)
         IN  Returned(Article(GeneralTitle(nodes),
                              GeneralAuthor(nodes),
                              Date(nodes),
                              ContentHtml(GeneralContainer(nodes),
                                          {Sel(n, "") : n \in {"script", "style", "nav",
                                                               "header", "footer", "aside"}}),
                              u),
                      << u >>)

fetch_article(u, pages) ==
    IF is_substack_url(u) THEN fetch_substack_article(u, pages)
    ELSE fetch_general_article(u, pages)

-----------------------------------------------------------------------------
(* The markup html_to_flowables is applied to *)

MaxRefKids == 4
MaxKids == 3
MaxItems == 3

RECURSIVE SeqsUpTo(_, _)
\* The sequences over S of length at most n.
SeqsUpTo(S, n) ==
    IF n = 0 THEN {<< >>}
    ELSE LET shorter == SeqsUpTo(S, n - 1)
         IN  shorter \cup {Append(q, x) : q \in {r \in shorter : Len(r) = n - 1}, x \in S}

P(t) == El("p", << Text(t) >>)
H(level, t) == El(level, << Text(t) >>)
Li(t) == El("li", << Text(t) >>)

\* Sibling lists around "References" headings.
RefItems ==
    { H("h2", << "References" >>),
      H("h1", << "Next" >>),
      P(<< "A" >>),
      Text(<< "B" >>),
      El("div", << H("h4", << "References" >>), P(<< "C" >>), H("h3", << " ", "REFERENCES", " " >>),
                   H("h4", << "References" >>), P(<< "A" >>) >>),
      El("p", << Text(<< "A" >>), El("h2", << El("b", << Text(<< "Refer" >>) >>),
                                             Text(<< "ences" >>) >>),
                 Text(<< "B" >>), El("i", << Text(<< "C" >>) >>) >>) }

\* Lists: li children with and without text, and a child that is no li.
ListKids == SeqsUpTo({Li(<< "A" >>), Li(<< " " >>)}, MaxItems)
             \cup {<< Li(<< "A" >>), P(<< "C" >>), Li(<< "B" >>) >>,
                   << Li(<< >>), El("ul", << Li(<< "C" >>) >>), Li(<< "B" >>) >>}
SecondLists == {<< Li(<< "A" >>) >>, << Li(<< " " >>), Li(<< "B" >>) >>,
                << Li(<< "A" >>), Li(<< "B" >>) >>}
ListForests ==
    { pre \o << El(n, k1) >> \o second :
        pre \in {<< >>, << P(<< "C" >>) >>},
        n \in {"ol", "ul"},
        k1 \in ListKids,
        second \in {<< El("ol", k2) >> : k2 \in SecondLists}
                   \cup {<< El("div", << P(<< "B" >>), El("ol", k2) >>) >> : k2 \in SecondLists} }

\* Recognised, empty and unrecognised elements, with div, body and list nesting.
WalkItems ==
    { P(<< "A" >>), P(<< " " >>), H("h3", << "C" >>),
      El("blockquote", << Text(<< " ", "A" >>), El("b", << Text(<< "B", " " >>) >>) >>),
      El("div", << P(<< "A" >>), El("div", << P(<< "B" >>), H("h2", << "C" >>) >>), Text(<< "C" >>) >>),
      El("section", << P(<< "A" >>) >>),
      Li(<< "A" >>),
      El("ul", << Li(<< "A" >>), El("div", << Li(<< "C" >>) >>), Li(<< "B" >>) >>),
      Cls("div", "subscription-widget-wrap", << El("nav", << >>), P(<< "B" >>) >>),
      El("body", << H("h1", << "B" >>), El("nav", << P(<< "C" >>) >>),
                    El("div", << H("h3", << "C" >>) >>) >>) }

Forests ==
    SeqsUpTo(RefItems, MaxRefKids) \cup ListForests \cup SeqsUpTo(WalkItems, MaxKids)

\* The markup strings: serialised documents.
Markups == {SerializeAll(f) : f \in Forests}

Idle == "-"

InitClassify ==
    /\ html_content \in Markups
    /\ stringsDecompose \in BOOLEAN
    /\ cleaned = << >> /\ soup = << >> /\ flowables = << >>
    /\ pc = "start"
    /\ urls = Idle /\ web = Idle /\ idx = Idle /\ articles = Idle /\ pdfCalls = Idle
    /\ attempts = Idle /\ url = Idle /\ outcome = Idle /\ story = Idle /\ classified = Idle

Classify ==
    /\ pc = "start"
    /\ cleaned' = Cleaned(html_content)
    /\ soup' = RemoveReferences(cleaned', stringsDecompose).nodes
    /\ flowables' = Walk(soup')
    /\ pc' = "done"
    /\ UNCHANGED <<urls, web, idx, articles, pdfCalls, attempts, url, outcome,
                   html_content, stringsDecompose, story, classified>>

NextClassify == Classify

SpecClassify == InitClassify /\ [][NextClassify]_vars

-----------------------------------------------------------------------------
(* The pages fetch_article is applied to *)

MaxContainers == 2

GenericUrl == << "https://", "example.com", "/a" >>
DirectUrl == << "https://", "news.substack.com", "/p/", "a" >>
ReaderUrl == << "https://", "substack.com", "/home/post/", "p-1" >>
ReaderUrl2 == << "https://", "substack.com", "/home/post/", "p-2" >>
Urls == {GenericUrl, DirectUrl, ReaderUrl, ReaderUrl2}

Failed(status) == [status |-> status, text |-> << >>]
Ok(text) == [status |-> "ok", text |-> text]

Page(head, body) == SerializeAll(<< El("html", << El("head", head), El("body", body) >>) >>)

CanonicalLink(href) ==
    Elem("link", [NoAttrs EXCEPT !.rel = Some(<< "canonical" >>), !.href = href], << >>)
A(href, k) == Elem("a", [NoAttrs EXCEPT !.href = Some(href)], k)
Img(alt) == Elem("img", [NoAttrs EXCEPT !.alt = alt], << >>)
Meta(name, content) ==
    Elem("meta", [NoAttrs EXCEPT !.mname = Some(<< name >>), !.content = content], << >>)
Time(datetime, t) == Elem("time", [NoAttrs EXCEPT !.datetime = datetime], << Text(t) >>)
Profile(who, t) == A(<< "https://substack.com/@", who >>, << Text(t) >>)

DefaultBody == << Cls("div", "body", << P(<< "A" >>) >>) >>

\* Pages that differ in their canonical link only.
LinkedPage(link) == Page(<< El("title", << Text(<< "T" >>) >>) >> \o link, DefaultBody)
CanonicalHrefs == {None, Some(<< >>)} \cup {Some(u) : u \in Urls \ {GenericUrl}}
LinkedPages == {LinkedPage(<< >>)} \cup {LinkedPage(<< CanonicalLink(h) >>) : h \in CanonicalHrefs}
ChainWebs ==
    { [u \in Urls |-> IF u = GenericUrl THEN g ELSE f[u]] :
        g \in {Failed("HTTPError"), Ok(LinkedPage(<< >>))},
        f \in [Urls \ {GenericUrl} -> {Failed("ConnectionError")} \cup {Ok(t) : t \in LinkedPages}] }

\* Pages that differ in where a title, an author and a date can be found.
TitlePages ==
    { Page(title \o meta, h1 \o time \o DefaultBody) :
        title \in {<< >>, << El("title", << >>) >>, << El("title", << Text(<< " ", "T", " " >>) >>) >>},
        meta \in {<< >>, << Meta("author", None) >>, << Meta("author", Some(<< >>)) >>,
                  << Meta("author", Some(<< "Meta" >>)) >>},
        h1 \in {<< >>, << Cls("h1", "post-title", << Text(<< "Post" >>) >>) >>,
                << Cls("h1", "post-title", << Text(<< " " >>) >>) >>,
                << El("h1", << Text(<< "Head" >>) >>) >>},
        time \in {<< >>, << Time(Some(<< "2024-01-01" >>), << "Jan 1" >>) >>,
                  << Time(None, << " ", "Jan 1" >>) >>, << Time(Some(<< >>), << " " >>) >>} }

\* Pages that differ in their masthead and their profile links.
AuthorPages ==
    { Page(<< >>, pub \o links \o DefaultBody) :
        pub \in {<< >>,
                 << Cls("h1", "publication-title", << A(<< "/" >>, << Text(<< "Jane" >>) >>) >>) >>,
                 << Cls("h1", "publication-title", << A(<< "/" >>, << Text(<< " ", "Pub" >>) >>) >>) >>,
                 << Cls("h1", "title", << A(<< "/" >>, << Img(Some(<< "Pub" >>)) >>) >>) >>,
                 << Cls("h1", "title", << A(<< "/" >>, << Img(Some(<< >>)), Img(Some(<< "Pub" >>)) >>) >>) >>,
                 << Cls("h1", "title", << A(<< "/", "about" >>, << Text(<< "Pub" >>) >>) >>) >>,
                 << Cls("h1", "post-title", << Text(<< "Post" >>) >>),
                    Cls("h1", "publication-title", << A(<< "/" >>, << Text(<< "Pub" >>) >>) >>) >>},
        links \in {<< >>,
                   << Profile("jane", << " " >>) >>,
                   << Profile("jane", << " " >>), Profile("jane", << "Jane", " " >>) >>,
                   << Profile("bob", << "Bob" >>), Profile("jane", << "Jane" >>) >>,
                   << A(<< "/", "about" >>, << Text(<< "Jane" >>) >>) >>} }

\* Candidate content containers.
ContainerItems ==
    { Cls("div", "available-content", << P(<< "A" >>), El("button", << Text(<< "B" >>) >>) >>),
      Cls("div", "body", << H("h2", << "C" >>), El("div", << P(<< "B" >>) >>) >>),
      El("article", << P(<< "A" >>), El("script", << Text(<< "C" >>) >>), H("h2", << "B" >>) >>),
      El("article", << El("body", << P(<< "A" >>) >>) >>),
      El("main", << El("ul", << Li(<< "A" >>) >>), P(<< "B" >>) >>),
      Cls("div", "post", << P(<< "B" >>), El("footer", << P(<< "C" >>) >>) >>),
      El("div", << P(<< "A", " ", "B" >>), H("h3", << "References" >>), P(<< "C" >>) >>),
      Cls("div", "subscription-widget-wrap", << P(<< "A", " ", "B", " ", "C" >>) >>),
      El("section", << P(<< "A" >>) >>) }
ContainerPages == {Page(<< >>, body) : body \in SeqsUpTo(ContainerItems, MaxContainers)}

SamePageWebs == {[u \in Urls |-> Ok(t)] : t \in TitlePages \cup AuthorPages \cup ContainerPages}

InitFetch ==
    /\ web \in ChainWebs \cup SamePageWebs
    /\ url \in Urls
    /\ stringsDecompose \in BOOLEAN
    /\ outcome = Idle
    /\ flowables = << >>
    /\ pc = "start"
    /\ urls = Idle /\ idx = Idle /\ articles = Idle /\ pdfCalls = Idle /\ attempts = Idle
    /\ html_content = Idle /\ cleaned = Idle /\ soup = Idle /\ story = Idle /\ classified = Idle

\* fetch_article(url) returns an article.
FetchReturns ==
    /\ pc = "start"
    /\ fetch_article(url, web).ok
    /\ outcome' = fetch_article(url, web)
    /\ pc' = "fetched"
    /\ UNCHANGED <<urls, web, idx, articles, pdfCalls, attempts, url, html_content,
                   stringsDecompose, cleaned, soup, flowables, story, classified>>

\* fetch_article(url) raises.
FetchRaises ==
    /\ pc = "start"
    /\ ~fetch_article(url, web).ok
    /\ outcome' = fetch_article(url, web)
    /\ pc' = "raised"
    /\ UNCHANGED <<urls, web, idx, articles, pdfCalls, attempts, url, html_content,
                   stringsDecompose, cleaned, soup, flowables, story, classified>>

\* The article's content goes through html_to_flowables.
ClassifyContent ==
    /\ pc = "fetched"
    /\ flowables' = html_to_flowables(outcome.article.content_html, stringsDecompose)
    /\ pc' = "classified"
    /\ UNCHANGED <<urls, web, idx, articles, pdfCalls, attempts, url, outcome, html_content,
                   stringsDecompose, cleaned, soup, story, classified>>

NextFetch == FetchReturns \/ FetchRaises \/ ClassifyContent

SpecFetch == InitFetch /\ [][NextFetch]_vars

\* The page an article was extracted from, parsed.
SourceOf(article) == Soup(web[article.url].text)

\* The container the strategy for `url` chooses on the article's page.
ChosenContainer ==
    IF is_substack_url(url) THEN SubstackContainer(SourceOf(outcome.article))
    ELSE GeneralContainer(SourceOf(outcome.article))

HoldsBody(node) == \E k \in DOMAIN Descendants(node) : Descendants(node)[k].name = "body"

\* C3 as claimed: a call of the site-specific extraction makes at most
\* two requests (the URL and one canonical URL) and ends without
\* exhausting the interpreter's stack.
C3_SingleHop ==
    (pc # "start" /\ is_substack_url(url)) =>
        /\ Len(outcome.requests) <= 2
        /\ outcome.ok \/ outcome.error # "RecursionError"

\* C4: the site-specific author string is "Written by A from P" when the
\* author A and the publication P are both found, non-empty and different,
\* "Written by A" when only A is, or P equals A, and "Unknown Author" when
\* no author is found.
C4_AuthorString ==
    (pc \in {"fetched", "classified"} /\ is_substack_url(url)) =>
        LET a == Author(SourceOf(outcome.article))
            p == Publication(SourceOf(outcome.article))
            shown == outcome.article.author
        IN  /\ (Truthy(a) /\ Truthy(p) /\ a[1] # p[1]) =>
                   shown = Some(<< "Written by " >> \o a[1] \o << " from " >> \o p[1])
            /\ (Truthy(a) /\ (~Truthy(p) \/ a[1] = p[1])) =>
                   shown = Some(<< "Written by " >> \o a[1])
            /\ ~Truthy(a) => shown = Some(<< "Unknown Author" >>)

\* An author whose publication has the same name.
C4_Witness ==
    /\ pc = "fetched"
    /\ is_substack_url(url)
    /\ Author(SourceOf(outcome.article)) = Some(<< "Jane" >>)
    /\ Publication(SourceOf(outcome.article)) = Some(<< "Jane" >>)
    /\ outcome.article.author = Some(<< "Written by ", "Jane" >>)

\* C5: a returned article has a title and an author that are non-empty
\* strings, "Untitled" when the strategy's title lookup finds nothing or
\* empty text, "Unknown Author" when its author lookup finds nothing or an
\* empty value; its date and content are strings, possibly empty.
C5_Placeholders ==
    pc \in {"fetched", "classified"} =>
        LET nodes == SourceOf(outcome.article)
            title == IF is_substack_url(url) THEN SubstackTitle(nodes) ELSE GeneralTitle(nodes)
            author == IF is_substack_url(url) THEN Author(nodes) ELSE GeneralAuthor(nodes)
            article == outcome.article
        IN  /\ Truthy(article.title)
            /\ Truthy(article.author)
            /\ ~Truthy(title) => article.title = Some(<< "Untitled" >>)
            /\ ~Truthy(author) => article.author = Some(<< "Unknown Author" >>)
            /\ article.date # None
            /\ article.content_html \in Seq([k : {"start", "end", "data"}, name : STRING,
                                             attrs : [class : Seq(STRING), href : Seq(Seq(STRING)),
                                                      rel : Seq(Seq(STRING)), alt : Seq(Seq(STRING)),
                                                      datetime : Seq(Seq(STRING)),
                                                      mname : Seq(Seq(STRING)),
                                                      content : Seq(Seq(STRING))],
                                             text : Seq(STRING)])

\* A matched title element with empty text beside a title element with
\* text, an author meta with an empty value and no date.
C5_Witness ==
    /\ pc = "fetched"
    /\ ~is_substack_url(url)
    /\ LET nodes == SourceOf(outcome.article)
       IN  /\ GeneralTitle(nodes) = Some(<< >>)
           /\ Find(nodes, Sel("title", "")) # << >>
           /\ GetTextStrip(Find(nodes, Sel("title", ""))[1]) # << >>
           /\ GeneralAuthor(nodes) = Some(<< >>)
    /\ outcome.article.title = Some(<< "Untitled" >>)
    /\ outcome.article.author = Some(<< "Unknown Author" >>)
    /\ outcome.article.date = Some(<< >>)

-----------------------------------------------------------------------------
(* make_newspaper.main *)

MaxUrls == 3

MainUrls == {GenericUrl, DirectUrl, ReaderUrl}
MainWebs ==
    { [u \in Urls |-> CASE u = GenericUrl -> g
                        [] u = DirectUrl -> d
                        [] u = ReaderUrl -> r
                        [] OTHER -> Ok(LinkedPage(<< >>))] :
        g \in {Failed("HTTPError"), Ok(LinkedPage(<< >>))},
        d \in {Failed("ConnectionError"), Ok(LinkedPage(<< >>))},
        r \in {Failed("ConnectionError"), Ok(LinkedPage(<< >>)),
               Ok(LinkedPage(<< CanonicalLink(Some(DirectUrl)) >>)),
               Ok(LinkedPage(<< CanonicalLink(Some(ReaderUrl)) >>))} }

InitMain ==
    /\ urls \in SeqsUpTo(MainUrls, MaxUrls)
    /\ web \in MainWebs
    /\ idx = 0
    /\ articles = << >>
    /\ attempts = << >>
    /\ pdfCalls = << >>
    /\ pc = "loop"
    /\ url = Idle /\ outcome = Idle /\ html_content = Idle /\ stringsDecompose = Idle
    /\ cleaned = Idle /\ soup = Idle /\ flowables = Idle /\ story = Idle /\ classified = Idle

\* The except clause leaving the loop instead of going on.
FetchFailsAndStops ==
    /\ pc = "loop"
    /\ idx < Len(urls)
    /\ ~fetch_article(urls[idx + 1], web).ok
    /\ attempts' = Append(attempts, urls[idx + 1])
    /\ idx' = Len(urls)
    /\ UNCHANGED <<urls, web, articles, pc, pdfCalls, url, outcome, html_content,
                   stringsDecompose, cleaned, soup, flowables, story, classified>>

\* Lines 48-53: the next URL is fetched and its article appended.
FetchSucceeds ==
    /\ pc = "loop"
    /\ idx < Len(urls)
    /\ LET article == fetch_article(urls[idx + 1], web)
       IN  /\ article.ok
           /\ articles' = Append(articles, article.article)
    /\ attempts' = Append(attempts, urls[idx + 1])
    /\ idx' = idx + 1
    /\ UNCHANGED <<urls, web, pc, pdfCalls, url, outcome, html_content,
                   stringsDecompose, cleaned, soup, flowables, story, classified>>

\* Lines 54-56: the fetch raises, the exception is caught and the loop goes on.
FetchFails ==
    /\ pc = "loop"
    /\ idx < Len(urls)
    /\ ~fetch_article(urls[idx + 1], web).ok
    /\ attempts' = Append(attempts, urls[idx + 1])
    /\ idx' = idx + 1
    /\ UNCHANGED <<urls, web, articles, pc, pdfCalls, url, outcome, html_content,
                   stringsDecompose, cleaned, soup, flowables, story, classified>>

\* The end of the loop going on to the PDF with no article.
GenerateEmpty ==
    /\ pc = "loop"
    /\ idx = Len(urls)
    /\ articles = << >>
    /\ pdfCalls' = Append(pdfCalls, articles)
    /\ pc' = "done"
    /\ UNCHANGED <<urls, web, idx, articles, attempts, url, outcome, html_content,
                   stringsDecompose, cleaned, soup, flowables, story, classified>>

\* Lines 58-60: no article, sys.exit(1).
ExitEmpty ==
    /\ pc = "loop"
    /\ idx = Len(urls)
    /\ articles = << >>
    /\ pc' = "exit1"
    /\ UNCHANGED <<urls, web, idx, articles, attempts, pdfCalls, url, outcome, html_content,
                   stringsDecompose, cleaned, soup, flowables, story, classified>>

\* Lines 62-67: generate_newspaper_pdf(articles, ...) is called; it returns
\* or raises (the output cannot be written).
GeneratePdf ==
    /\ pc = "loop"
    /\ idx = Len(urls)
    /\ articles # << >>
    /\ pdfCalls' = Append(pdfCalls, articles)
    /\ \E written \in BOOLEAN : pc' = IF written THEN "done" ELSE "crashed"
    /\ UNCHANGED <<urls, web, idx, articles, attempts, url, outcome, html_content,
                   stringsDecompose, cleaned, soup, flowables, story, classified>>

NextMain == FetchSucceeds \/ FetchFails \/ ExitEmpty \/ GeneratePdf

SpecMain == InitMain /\ [][NextMain]_vars

\* What fetching each URL of the list gives.
Results == [u \in {urls[k] : k \in DOMAIN urls} |-> fetch_article(u, web)]

RECURSIVE Successes(_, _)
\* The articles of the URLs of `us` whose fetch succeeds, in their order.
Successes(us, results) ==
    IF us = << >> THEN << >>
    ELSE (IF results[Head(us)].ok THEN << results[Head(us)].article >> ELSE << >>)
         \o Successes(Tail(us), results)

\* C1: the articles gathered are those of the URLs attempted so far whose
\* fetch succeeded, in input order; every URL up to the loop index was
\* attempted whatever failed before it; the list handed to the PDF is that
\* of all the URLs.
C1_SuccessfulSubsequence ==
    LET results == Results
    IN  /\ attempts = SubSeq(urls, 1, idx)
        /\ articles = Successes(SubSeq(urls, 1, idx), results)
        /\ pc # "loop" => idx = Len(urls)
        /\ pdfCalls # << >> => pdfCalls[1] = Successes(urls, results)

\* A failing URL followed by two that succeed, and the PDF made of the two.
C1_Witness ==
    /\ pc = "done"
    /\ Len(urls) = 3
    /\ urls[2] # urls[3]
    /\ ~Results[urls[1]].ok
    /\ Results[urls[2]].ok
    /\ Results[urls[3]].ok
    /\ pdfCalls = << << Results[urls[2]].article, Results[urls[3]].article >> >>

\* C2: the PDF is generated at most once, after every URL was attempted and
\* with at least one article; when no URL succeeds the run ends in the
\* error exit and nothing is generated.
C2_GenerateOnceNonEmpty ==
    /\ Len(pdfCalls) <= 1
    /\ pdfCalls # << >> => (attempts = urls /\ pdfCalls[1] # << >>)
    /\ pc = "exit1" => pdfCalls = << >>
    /\ pc # "loop" =>
          LET none == \A k \in DOMAIN urls : ~Results[urls[k]].ok
          IN  IF none THEN pc = "exit1" /\ pdfCalls = << >> ELSE Len(pdfCalls) = 1

\* Two URLs that both fail, and the error exit.
C2_Witness ==
    /\ pc = "exit1"
    /\ Len(urls) >= 2
    /\ attempts = urls
    /\ pdfCalls = << >>

-----------------------------------------------------------------------------
(* pdf_generator.generate_newspaper_pdf *)

MaxArticles == 3

Today == << "Monday, November 02, 2026" >>

Rule(thickness) == [kind |-> "HRFlowable", thickness |-> thickness]
Spacer(height) == [kind |-> "Spacer", height |-> height]
PageBreak == [kind |-> "PageBreak"]
FrameBreak == [kind |-> "FrameBreak"]

\* Lines 266-270.
FrontMatter ==
    << Flowable("NewspaperTitle", << "THE WEEKLY" >>), Flowable("NewspaperDate", Today),
       Rule(2), Spacer("0.3cm") >>

\* The divider put before every article.
DividerBeforeAll(i) == << Spacer("0.5cm"), Rule(1), Spacer("0.3cm") >>

\* Lines 275-278: i is the 0-based index of the article.
Divider(i) == IF i > 0 THEN << Spacer("0.5cm"), Rule(1), Spacer("0.3cm") >> ELSE << >>

\* Lines 283-285.
MetaText(article) ==
    IF Truthy(article.date) THEN article.author[1] \o << " &#8226; " >> \o article.date[1]
    ELSE article.author[1]

\* Lines 281-290: what one article adds to the story.
ArticleFlow(i, article, strDec) ==
    Divider(i)
    \o << Flowable("ArticleTitle", article.title[1]), Flowable("ArticleMeta", MetaText(article)) >>
    \o html_to_flowables(article.content_html, strDec)

LayoutArticles ==
    { Article(Some(<< "T1" >>), Some(<< "Written by ", "Jane" >>), Some(<< "2024-01-01" >>),
              Serialize(Cls("div", "body", << P(<< "A" >>), H("h2", << "C" >>) >>)), DirectUrl),
      Article(None, None, None, << >>, GenericUrl),
      Article(Some(<< "T3" >>), None, Some(<< "Jan 1" >>),
              Serialize(El("article", << P(<< "A" >>) >>)), GenericUrl),
      Article(Some(<< "T4" >>), Some(<< "Meta" >>), None,
              Serialize(El("div", << H("h3", << "References" >>), Text(<< "B" >>), P(<< "C" >>),
                                     H("h1", << "Next" >>),
                                     El("ol", << Li(<< "A" >>), Li(<< "B" >>) >>) >>)),
              ReaderUrl) }

InitLayout ==
    /\ articles \in SeqsUpTo(LayoutArticles, MaxArticles) \ {<< >>}
    /\ stringsDecompose \in BOOLEAN
    /\ story = << >>
    /\ idx = 0
    /\ classified = [k \in DOMAIN articles |-> 0]
    /\ pc = "start"
    /\ urls = Idle /\ web = Idle /\ pdfCalls = Idle /\ attempts = Idle /\ url = Idle
    /\ outcome = Idle /\ html_content = Idle /\ cleaned = Idle /\ soup = Idle /\ flowables = Idle

\* Lines 263-270.
BuildHeader ==
    /\ pc = "start"
    /\ story' = FrontMatter
    /\ pc' = "articles"
    /\ UNCHANGED <<urls, web, idx, articles, pdfCalls, attempts, url, outcome, html_content,
                   stringsDecompose, cleaned, soup, flowables, classified>>

\* Lines 273-290: one turn of the loop over the articles.
AddArticle ==
    /\ pc = "articles"
    /\ idx < Len(articles)
    /\ story' = story \o ArticleFlow(idx, articles[idx + 1], stringsDecompose)
    /\ classified' = [classified EXCEPT ![idx + 1] = @ + 1]
    /\ idx' = idx + 1
    /\ UNCHANGED <<urls, web, articles, pc, pdfCalls, attempts, url, outcome, html_content,
                   stringsDecompose, cleaned, soup, flowables>>

\* Line 293: doc.build(story).
BuildPdf ==
    /\ pc = "articles"
    /\ idx = Len(articles)
    /\ pc' = "built"
    /\ UNCHANGED <<urls, web, idx, articles, pdfCalls, attempts, url, outcome, html_content,
                   stringsDecompose, cleaned, soup, flowables, story, classified>>

NextLayout == BuildHeader \/ AddArticle \/ BuildPdf

SpecLayout == InitLayout /\ [][NextLayout]_vars

\* The metadata line as the claim gives it.
MetaLine(article) ==
    IF article.date[1] # << >> THEN article.author[1] \o << " &#8226; " >> \o article.date[1]
    ELSE article.author[1]

RECURSIVE FlowFrom(_)
\* What the articles from the k-th on are to add to the story.
FlowFrom(k) ==
    IF k > Len(articles) THEN << >>
    ELSE (IF k # 1 THEN << Spacer("0.5cm"), Rule(1), Spacer("0.3cm") >> ELSE << >>)
         \o << Flowable("ArticleTitle", articles[k].title[1]),
               Flowable("ArticleMeta", MetaLine(articles[k])) >>
         \o html_to_flowables(articles[k].content_html, stringsDecompose)
         \o FlowFrom(k + 1)

\* C9: the story that is built starts with the masthead title, the date,
\* a rule and a spacer; then, article by article in list order, come a
\* divider (spacer, rule, spacer) unless the article is the first, its
\* title, its metadata line (the author, then the bullet and the date when
\* the date is not empty) and its blocks; every article was classified
\* once and the story holds no page or frame break.
C9_StoryOrder ==
    pc = "built" =>
        /\ story = << Flowable("NewspaperTitle", << "THE WEEKLY" >>),
                      Flowable("NewspaperDate", Today), Rule(2), Spacer("0.3cm") >>
                   \o FlowFrom(1)
        /\ \A k \in DOMAIN articles : classified[k] = 1
        /\ \A k \in DOMAIN story : story[k] \notin {PageBreak, FrameBreak}

\* Three articles, one without a date and one with content, built.
C9_Witness ==
    /\ pc = "built"
    /\ Len(articles) = 3
    /\ articles[1].date = Some(<< >>)
    /\ articles[2].date # Some(<< >>)
    /\ Len(story) > 4 + 2 + 5 + 5
    /\ story[5] = Flowable("ArticleTitle", << "Untitled" >>)
    /\ story[6] = Flowable("ArticleMeta", << "Unknown Author" >>)
    /\ story[7] = Spacer("0.5cm")

-----------------------------------------------------------------------------
(* What the classifier is specified to return, stated over the positions   *)
(* of the document rather than by the walk.                                *)

RECURSIVE Enum(_, _, _, _)
\* Every node at or below nodes[k..], in document order, with its path
\* (child indices from the root) and the names of its ancestors.
Enum(nodes, k, path, anc) ==
    IF k > Len(nodes) THEN << >>
    ELSE << [node |-> nodes[k], path |-> Append(path, k), anc |-> anc] >>
         \o Enum(nodes[k].kids, 1, Append(path, k), Append(anc, nodes[k].name))
         \o Enum(nodes, k + 1, path, anc)

Entries(nodes) == Enum(nodes, 1, << >>, << >>)

Front(q) == SubSeq(q, 1, Len(q) - 1)
Last(q) == q[Len(q)]
Min(S) == CHOOSE x \in S : \A y \in S : x <= y

RECURSIVE Prune(_, _, _, _)
\* nodes[k..] without the nodes whose path is in `gone`.
Prune(nodes, k, path, gone) ==
    IF k > Len(nodes) THEN << >>
    ELSE (IF Append(path, k) \in gone THEN << >>
          ELSE << [nodes[k] EXCEPT !.kids = Prune(nodes[k].kids, 1, Append(path, k), gone)] >>)
         \o Prune(nodes, k + 1, path, gone)

\* The positions of the first References section of `nodes`: the first
\* h1-h3 in document order whose text is "references" in any case, and its
\* following siblings before the next sibling h1-h3.  Strings among them
\* count when the library can decompose strings.
ReferencesSection(nodes, strDec) ==
    LET es == Entries(nodes)
        refs == {k \in DOMAIN es : es[k].node.name \in {"h1", "h2", "h3"}
                                   /\ Lower(GetTextStrip(es[k].node)) = << "references" >>}
    IN  IF refs = {} THEN {}
        ELSE LET at == es[Min(refs)].path
                 sibs == {k \in DOMAIN es : Front(es[k].path) = Front(at)}
                 stops == {Last(es[k].path) : k \in {j \in sibs :
                              /\ Last(es[j].path) > Last(at)
                              /\ es[j].node.name \in {"h1", "h2", "h3"}}}
             IN  {es[k].path : k \in {j \in sibs :
                              /\ Last(es[j].path) >= Last(at)
                              /\ \A t \in stops : Last(es[j].path) < t
                              /\ (IsTag(es[j].node) \/ strDec)}}

WithoutReferences(nodes, strDec) == Prune(nodes, 1, << >>, ReferencesSection(nodes, strDec))

AllDiv(anc) == \A k \in DOMAIN anc : anc[k] = "div"

StyleOf(name) ==
    CASE name = "p" -> "ColumnBody"
      [] name \in {"h1", "h2"} -> "ArticleHeading"
      [] name = "h3" -> "ArticleSubheading"
      [] name = "blockquote" -> "Quote"
      [] OTHER -> "ColumnBody"

\* An entry that is to give a block: a p, h1, h2, h3 or blockquote below
\* divs only, or a direct li of a ul/ol that is below divs only; with text.
GivesBlock(e) ==
    /\ GetTextStrip(e.node) # << >>
    /\ \/ e.node.name \in {"p", "h1", "h2", "h3", "blockquote"} /\ AllDiv(e.anc)
       \/ /\ e.node.name = "li"
          /\ e.anc # << >>
          /\ Last(e.anc) \in {"ul", "ol"}
          /\ AllDiv(Front(e.anc))

RECURSIVE Keep(_, _)
Keep(es, k) ==
    IF k > Len(es) THEN << >>
    ELSE (IF GivesBlock(es[k]) THEN << es[k] >> ELSE << >>) \o Keep(es, k + 1)

\* The entries of a tree that give a block, in document order.
BlockEntries(tree) == Keep(Entries(BodyChildren(tree)), 1)

IsItem(e) == e.node.name = "li"

\* A block's text without its list marker.
Unmarked(e, f) == IF IsItem(e) THEN SubSeq(f.text, 3, Len(f.text)) ELSE f.text

\* The node at a path.
RECURSIVE NodeAt(_, _)
NodeAt(nodes, path) ==
    IF Len(path) = 1 THEN nodes[path[1]] ELSE NodeAt(nodes[path[1]].kids, Tail(path))

\* The 1-based position of a list item among the li children of its list
\* that have text, up to and including itself.
Ordinal(nodes, e) ==
    LET list == NodeAt(nodes, Front(e.path))
    IN  Cardinality({k \in 1..Last(e.path) :
                        list.kids[k].name = "li" /\ GetTextStrip(list.kids[k]) # << >>})

\* C6: once the markup is classified, the tree the walk ran over is the
\* cleaned tree without its first References section (the heading and its
\* following siblings before the next sibling h1-h3), everything else in
\* place, and the blocks are those of that tree; a tree with no
\* References heading is left as it was.
C6_ReferencesStripped ==
    pc = "done" =>
        LET expected == WithoutReferences(cleaned, stringsDecompose)
        IN  /\ soup = expected
            /\ flowables = Walk(expected)
            /\ ReferencesSection(cleaned, stringsDecompose) = {} => soup = cleaned

\* A References heading with a sibling before the next heading, a
\* terminating heading after it and a second References heading later on.
C6_Witness ==
    /\ pc = "done"
    /\ LET before == cleaned
           gone == ReferencesSection(before, stringsDecompose)
       IN  /\ Cardinality(gone) >= 2
           /\ \E q \in gone : Last(q) + 1 <= Len(before) /\ Len(q) = 1
                               /\ Append(Front(q), Last(q) + 1) \notin gone
                               /\ IsReferencesHeading(before[Last(q) + 1])
    /\ flowables # << >>

\* C7: every list item block carries the marker of its list: the bullet
\* for a ul, and for an ol its position among the items of that same ol
\* that have text, counted from 1.
C7_ListNumbering ==
    pc = "done" =>
        LET tree == BodyChildren(soup)
            es == BlockEntries(soup)
        IN  /\ Len(flowables) = Len(es)
            /\ \A k \in DOMAIN es :
                  IsItem(es[k]) =>
                      /\ Len(flowables[k].text) >= 3
                      /\ flowables[k].text[2] = " "
                      /\ flowables[k].text[1] =
                            IF Last(es[k].anc) = "ul" THEN BulletChar
                            ELSE ToString(Ordinal(tree, es[k])) \o "."

\* Two ordered lists, the first with an empty item before a numbered one,
\* the second inside a div after a paragraph, both numbered from 1.
C7_Witness ==
    /\ pc = "done"
    /\ \E a, b \in DOMAIN flowables :
          /\ a + 1 < b
          /\ flowables[a].text[1] = "2."
          /\ flowables[b].text[1] = "1."
          /\ flowables[b - 1].text = << "B" >>
    /\ LET es == BlockEntries(soup)
       IN  \E k \in DOMAIN es : IsItem(es[k]) /\ Last(es[k].path) = 3
                                 /\ flowables[k].text[1] = "2."

\* C8: the blocks are, in document order, the p, h1, h2, h3, blockquote
\* and direct ul/ol li elements that lie below the body (or the root)
\* through div ancestors only and have text; each has the style of its
\* element and its flattened text, and none is empty.
C8_BlocksInDocumentOrder ==
    pc = "done" =>
        LET es == BlockEntries(soup)
        IN  /\ Len(flowables) = Len(es)
            /\ \A k \in DOMAIN es :
                  /\ flowables[k].style = StyleOf(es[k].node.name)
                  /\ Unmarked(es[k], flowables[k]) = GetTextStrip(es[k].node)
                  /\ flowables[k].text # << >>

\* A div inside a div gave blocks, and an unrecognised element holding a
\* paragraph and an empty paragraph gave none.
C8_Witness ==
    /\ pc = "done"
    /\ LET all == Entries(BodyChildren(soup))
           es == BlockEntries(soup)
       IN  /\ \E k \in DOMAIN es : Len(es[k].anc) = 2 /\ AllDiv(es[k].anc)
           /\ \E k \in DOMAIN all : all[k].node.name = "p" /\ all[k].anc = << "section" >>
           /\ \E k \in DOMAIN all : all[k].node.name = "p" /\ GetTextStrip(all[k].node) = << >>
           /\ Len(flowables) >= 3

=============================================================================
